---- MODULE Spec2Model ----
(***************************************************************************)
(* A model of tools_agent/utils/openalex.py: the three OpenAlex tools      *)
(* (search_works_openalex, get_work_details_openalex,                      *)
(* search_authors_openalex) and the two pure helpers they use              *)
(* (extract_openalex_id, reconstruct_abstract).                            *)
(*                                                                         *)
(* An invocation runs in two steps, split at the one `await` on the        *)
(* network: the call step validates the arguments and builds the request,  *)
(* the response step consumes the service's answer and builds the string   *)
(* that is returned.                                                       *)
(***************************************************************************)
EXTENDS Integers, Sequences, FiniteSets, TLC

VARIABLES pc, op, args, requests, response, result

vars == <<pc, op, args, requests, response, result>>

-----------------------------------------------------------------------------
(* Python / JSON values.  Every value carries its type in the field t.     *)
(* A mapping is a record over a fixed key set whose missing keys hold      *)
(* Absent; text that the code inspects character by character is a         *)
(* sequence of one-character strings, text it only passes on is a string.  *)

Absent == [t |-> "absent"]
None == [t |-> "null"]
Str(s) == [t |-> "str", v |-> s]
Text(s) == [t |-> "text", v |-> s]
Num(n) == [t |-> "num", v |-> n]
Bool(b) == [t |-> "bool", v |-> b]
List(s) == [t |-> "list", v |-> s]
(* an abstract_inverted_index: the mapping's items in iteration order *)
Index(s) == [t |-> "index", v |-> s]
Obj(f) == [t |-> "obj", v |-> f]

(* An exception travelling up the Python stack. *)
Raise == [t |-> "raise"]
Ok(v) == [t |-> "ok", v |-> v]

Whitespace == {" ", "\t"}

(* bool(v) *)
Truthy(v) ==
    CASE v.t = "null" -> FALSE
      [] v.t = "bool" -> v.v
      [] v.t = "num" -> v.v # 0
      [] v.t = "str" -> v.v # ""
      [] v.t = "text" -> v.v # <<>>
      [] v.t = "list" -> Len(v.v) > 0
      [] v.t = "index" -> Len(v.v) > 0
      [] v.t = "obj" -> \E k \in DOMAIN v.v : v.v[k].t # "absent"
      [] OTHER -> FALSE

(* mapping.get(key, default) on a mapping's fields *)
DictGet(fields, key, default) ==
    IF fields[key].t = "absent" THEN default ELSE fields[key]

(* f"{v}" for the values the model draws *)
Format(v) ==
    CASE v.t = "null" -> "None"
      [] v.t = "str" -> v.v
      [] v.t = "num" -> ToString(v.v)
      [] v.t = "bool" -> IF v.v THEN "True" ELSE "False"
      [] OTHER -> "<object>"

RECURSIVE LStrip(_)
LStrip(s) == IF s # <<>> /\ Head(s) \in Whitespace THEN LStrip(Tail(s)) ELSE s

RECURSIVE RStrip(_)
RStrip(s) ==
    IF s # <<>> /\ s[Len(s)] \in Whitespace THEN RStrip(SubSeq(s, 1, Len(s) - 1)) ELSE s

(* str.strip() *)
Strip(s) == RStrip(LStrip(s))

(* str.startswith(prefix) *)
StartsWith(s, prefix) ==
    Len(s) >= Len(prefix) /\ SubSeq(s, 1, Len(prefix)) = prefix

(* separator.join(parts) for strings *)
RECURSIVE Join(_, _)
Join(sep, parts) ==
    IF parts = <<>> THEN ""
    ELSE IF Len(parts) = 1 THEN parts[1]
    ELSE parts[1] \o sep \o Join(sep, Tail(parts))

Min(a, b) == IF a < b THEN a ELSE b
Max(a, b) == IF a > b THEN a ELSE b

-----------------------------------------------------------------------------
(* Program constants *)

CSU_OPENALEX_ID == "i92446798"
MinLimit == 1
MaxLimit == 200
ListAuthorCap == 3
DefaultSort == "relevance_score:desc"

ClampNoFloor(limit) == Min(limit, MaxLimit)

(* limit = min(max(limit, 1), 200) *)
ClampLimit(limit) == Min(Max(limit, MinLimit), MaxLimit)

-----------------------------------------------------------------------------
(* search_works_openalex: the request it builds *)

NoFilterGiven(a) ==
    ~ (\/ Truthy(a.filter_type) \/ Truthy(a.filter_year)
       \/ Truthy(a.filter_author_id) \/ Truthy(a.filter_csu_only))

(* if query is None: query = "" *)
WorksQuery(a) == IF a.query.t = "null" THEN <<>> ELSE a.query.v

WorksValidationNoStrip(a) == WorksQuery(a) = <<>> /\ NoFilterGiven(a)

(* the early return of the else branch *)
WorksValidationFails(a) == Strip(WorksQuery(a)) = <<>> /\ NoFilterGiven(a)

WorksFiltersReversed(a) ==
    (IF Truthy(a.filter_csu_only)
        THEN <<"authorships.institutions.id:" \o CSU_OPENALEX_ID>> ELSE <<>>)
    \o (IF Truthy(a.filter_author_id)
        THEN <<"authorships.author.id:" \o a.filter_author_id.v>> ELSE <<>>)
    \o (IF Truthy(a.filter_year)
        THEN <<"publication_year:" \o a.filter_year.v>> ELSE <<>>)
    \o (IF Truthy(a.filter_type) THEN <<"type:" \o a.filter_type.v>> ELSE <<>>)

(* the list `filters` after the four appends *)
WorksFilters(a) ==
    (IF Truthy(a.filter_type) THEN <<"type:" \o a.filter_type.v>> ELSE <<>>)
    \o (IF Truthy(a.filter_year)
        THEN <<"publication_year:" \o a.filter_year.v>> ELSE <<>>)
    \o (IF Truthy(a.filter_author_id)
        THEN <<"authorships.author.id:" \o a.filter_author_id.v>> ELSE <<>>)
    \o (IF Truthy(a.filter_csu_only)
        THEN <<"authorships.institutions.id:" \o CSU_OPENALEX_ID>> ELSE <<>>)

(* params["search"]: set by the dict literal, set again when the query is
   not blank; no branch removes the key *)
WorksSearchParam(a) == Text(WorksQuery(a))

(* the mapping `params` at the time of session.get *)
WorksParams(a) ==
    [search |-> WorksSearchParam(a),
     per_page |-> Num(ClampLimit(a.limit)),
     sort |-> IF Truthy(a.sort_by) /\ a.sort_by.v # DefaultSort
                 THEN a.sort_by ELSE Absent,
     mailto |-> IF Truthy(a.email) THEN a.email ELSE Absent,
     filter |-> IF WorksFilters(a) # <<>>
                   THEN Str(Join(",", WorksFilters(a))) ELSE Absent]

WorksRequest(a) == [url |-> "/works", params |-> WorksParams(a)]

-----------------------------------------------------------------------------
(* extract_openalex_id *)

Https == <<"h", "t", "t", "p", "s">>

(* full_url.split("/")[-1]: what follows the last "/" *)
RECURSIVE LastSegment(_)
LastSegment(s) ==
    IF \A i \in 1..Len(s) : s[i] # "/" THEN s
    ELSE LastSegment(Tail(s))

(* The argument is what work.get("id", "") gave: a falsy value gives "", text
   starting with "https" its last path segment, other text itself; a truthy
   value that is no text has no startswith. *)
extract_openalex_id(full_url) ==
    IF ~ Truthy(full_url) THEN Ok(<<>>)
    ELSE IF full_url.t # "text" THEN Raise
    ELSE IF StartsWith(full_url.v, Https) THEN Ok(LastSegment(full_url.v))
    ELSE Ok(full_url.v)

-----------------------------------------------------------------------------
(* reconstruct_abstract.  The index is the sequence of the mapping's items *)
(* [word, positions] in iteration order; a word is a sequence of           *)
(* characters; list slot p of Python is slot p + 1 here.                   *)

RECURSIVE SeqMax(_)
SeqMax(s) == IF Len(s) = 1 THEN s[1] ELSE Max(s[1], SeqMax(Tail(s)))

(* " ".join(words) *)
RECURSIVE JoinSpace(_)
JoinSpace(ws) ==
    IF ws = <<>> THEN <<>>
    ELSE IF Len(ws) = 1 THEN ws[1]
    ELSE ws[1] \o <<" ">> \o JoinSpace(Tail(ws))

(* str.split(): the maximal runs of non-whitespace characters; cur is the
   run being read *)
RECURSIVE SplitFrom(_, _)
SplitFrom(s, cur) ==
    IF s = <<>> THEN (IF cur = <<>> THEN <<>> ELSE <<cur>>)
    ELSE IF Head(s) \in Whitespace
         THEN (IF cur = <<>> THEN <<>> ELSE <<cur>>) \o SplitFrom(Tail(s), <<>>)
         ELSE SplitFrom(Tail(s), Append(cur, Head(s)))

Split(s) == SplitFrom(s, <<>>)

(* the inner loop: words[position] = word for each position below
   len(words); a negative position counts from the end and raises
   IndexError below -len(words) *)
RECURSIVE PlaceWord(_, _, _)
PlaceWord(words, word, positions) ==
    IF words.t = "raise" \/ positions = <<>> THEN words
    ELSE LET p == Head(positions)
             n == Len(words.v)
         IN  IF p >= n THEN PlaceWord(words, word, Tail(positions))
             ELSE IF p >= 0
                  THEN PlaceWord(Ok([words.v EXCEPT ![p + 1] = word]), word,
                                 Tail(positions))
             ELSE IF p >= -n
                  THEN PlaceWord(Ok([words.v EXCEPT ![n + p + 1] = word]), word,
                                 Tail(positions))
             ELSE Raise

(* the outer loop over abstract_inverted_index.items() *)
RECURSIVE PlaceAll(_, _)
PlaceAll(words, items) ==
    IF words.t = "raise" \/ items = <<>> THEN words
    ELSE PlaceAll(PlaceWord(words, Head(items).word, Head(items).positions),
                  Tail(items))

JoinNoCleanup(words) == JoinSpace(words)

(* " ".join(" ".join(words).split()) *)
JoinAndClean(words) == JoinSpace(Split(JoinSpace(words)))

(* A falsy argument gives ""; max() of an empty position list raises
   ValueError; a truthy value that is no mapping has no values(). *)
reconstruct_abstract(abstract_inverted_index) ==
    IF ~ Truthy(abstract_inverted_index) THEN Ok(<<>>)
    ELSE IF abstract_inverted_index.t # "index" THEN Raise
    ELSE IF \E i \in 1..Len(abstract_inverted_index.v) :
                abstract_inverted_index.v[i].positions = <<>> THEN Raise
    ELSE LET items == abstract_inverted_index.v
             max_position ==
                 SeqMax([i \in 1..Len(items) |-> SeqMax(items[i].positions)])
             blank == [i \in 1..Max(max_position + 1, 0) |-> <<>>]
             placed == PlaceAll(Ok(blank), items)
         IN  IF placed.t = "raise" THEN Raise ELSE Ok(JoinAndClean(placed.v))

-----------------------------------------------------------------------------
(* Formatting one work record.  Each operator gives Ok(rendered text) or   *)
(* Raise, the exception the Python expression raises on that shape.        *)

ScoreThreshold == 3  \* 0.3, scores being counted in tenths
ListConceptCap == 3
ListKeywordCap == 3

EmptyAuthor == Obj([display_name |-> Absent])
EmptyLocation == Obj([source |-> Absent])
EmptySource == Obj([display_name |-> Absent, type |-> Absent])

(* sequence[:n] *)
Prefix(s, n) == SubSeq(s, 1, Min(n, Len(s)))

(* every element's result, or Raise when one of them raised *)
AllOk(rs) ==
    IF \E i \in 1..Len(rs) : rs[i].t = "raise" THEN Raise
    ELSE Ok([i \in 1..Len(rs) |-> rs[i].v])

(* author.get("author", {}).get("display_name", "Unknown"), which must be a
   str for ", ".join *)
AuthorName(authorship) ==
    IF authorship.t # "obj" THEN Raise
    ELSE LET author == DictGet(authorship.v, "author", EmptyAuthor)
         IN  IF author.t # "obj" THEN Raise
             ELSE LET name == DictGet(author.v, "display_name", Str("Unknown"))
                  IN  IF name.t # "str" THEN Raise ELSE Ok(name.v)

AuthorNames(authorships) ==
    AllOk([i \in 1..Len(authorships) |-> AuthorName(authorships[i])])

ListAuthorsNoSuffix(work) ==
    LET authors == DictGet(work, "authorships", List(<<>>))
    IN  IF authors.t # "list" THEN Raise
        ELSE LET names == AuthorNames(Prefix(authors.v, ListAuthorCap))
             IN  IF names.t = "raise" THEN Raise ELSE Ok(Join(", ", names.v))

(* authors_str of the list view: authors[:3] and the "and N others" suffix *)
ListAuthors(work) ==
    LET authors == DictGet(work, "authorships", List(<<>>))
    IN  IF authors.t # "list" THEN Raise
        ELSE LET names == AuthorNames(Prefix(authors.v, ListAuthorCap))
             IN  IF names.t = "raise" THEN Raise
                 ELSE Ok(Join(", ", names.v)
                         \o (IF Len(authors.v) > ListAuthorCap
                                THEN " and " \o ToString(Len(authors.v) - ListAuthorCap)
                                     \o " others"
                                ELSE ""))

(* authors_str of the detail view: every authorship, no cap and no suffix.
   Iterating a mapping gives its keys, which have no get. *)
DetailAuthors(work) ==
    LET authors == DictGet(work, "authorships", List(<<>>))
    IN  IF authors.t = "obj"
           THEN (IF Truthy(authors) THEN Raise ELSE Ok(""))
        ELSE IF authors.t # "list" THEN Raise
        ELSE LET names == AuthorNames(authors.v)
             IN  IF names.t = "raise" THEN Raise ELSE Ok(Join(", ", names.v))

(* venue_info: primary_location and its source fall back to {} when absent
   or None; the display name and the type do not *)
VenueInfo(work) ==
    LET got == DictGet(work, "primary_location", EmptyLocation)
        venue == IF got.t = "null" THEN EmptyLocation ELSE got
    IN  IF venue.t # "obj" THEN Raise
        ELSE LET gotsrc == DictGet(venue.v, "source", EmptySource)
                 venue_source == IF gotsrc.t = "null" THEN EmptySource ELSE gotsrc
             IN  IF venue_source.t # "obj" THEN Raise
                 ELSE LET venue_name == DictGet(venue_source.v, "display_name",
                                                Str("Unknown venue"))
                          venue_type == DictGet(venue_source.v, "type", Str(""))
                      IN  IF Truthy(venue_type)
                             THEN Ok(Format(venue_name) \o " (" \o Format(venue_type)
                                     \o ")")
                             ELSE Ok(Format(venue_name))

(* f"{work.get(key, default)}": the default stands in for a missing key
   only *)
Leaf(work, key, default) == Format(DictGet(work, key, Str(default)))

(* the comparison written >= instead of > *)
ConceptShownAtThreshold(concept) ==
    IF concept.t # "obj" THEN Raise
    ELSE LET score == DictGet(concept.v, "score", Num(0))
         IN  IF score.t # "num" THEN Raise ELSE Ok(score.v >= ScoreThreshold)

(* concept.get("score", 0) > 0.3, which needs a number *)
ConceptShown(concept) ==
    IF concept.t # "obj" THEN Raise
    ELSE LET score == DictGet(concept.v, "score", Num(0))
         IN  IF score.t # "num" THEN Raise ELSE Ok(score.v > ScoreThreshold)

(* x.get("display_name", ""), which must be a str for ", ".join *)
DisplayName(x) ==
    IF x.t # "obj" THEN Raise
    ELSE LET name == DictGet(x.v, "display_name", Str(""))
         IN  IF name.t # "str" THEN Raise ELSE Ok(name.v)

(* the subsequence of s at the indices in keep *)
RECURSIVE Select(_, _)
Select(s, keep) ==
    IF s = <<>> THEN <<>>
    ELSE (IF 1 \in keep THEN <<Head(s)>> ELSE <<>>)
         \o Select(Tail(s), {i - 1 : i \in keep \ {1}})

(* [c.get("display_name", "") for c in cs if c.get("score", 0) > 0.3] *)
ConceptNames(cs) ==
    LET shown == AllOk([i \in 1..Len(cs) |-> ConceptShown(cs[i])])
    IN  IF shown.t = "raise" THEN Raise
        ELSE LET kept == Select(cs, {i \in 1..Len(cs) : shown.v[i]})
                 names == AllOk([i \in 1..Len(kept) |-> DisplayName(kept[i])])
             IN  IF names.t = "raise" THEN Raise
                 ELSE Ok(IF names.v = <<>> THEN "No concepts available"
                         ELSE Join(", ", names.v))

(* concepts_str of the list view: concepts[:3], then the score filter *)
ListConcepts(work) ==
    LET concepts == DictGet(work, "concepts", List(<<>>))
    IN  IF concepts.t # "list" THEN Raise
        ELSE ConceptNames(Prefix(concepts.v, ListConceptCap))

(* concepts_str of the detail view: the score filter over all concepts *)
DetailConcepts(work) ==
    LET concepts == DictGet(work, "concepts", List(<<>>))
    IN  IF concepts.t = "obj"
           THEN (IF Truthy(concepts) THEN Raise ELSE Ok("No concepts available"))
        ELSE IF concepts.t # "list" THEN Raise
        ELSE ConceptNames(concepts.v)

KeywordNames(ks) ==
    LET names == AllOk([i \in 1..Len(ks) |-> DisplayName(ks[i])])
    IN  IF names.t = "raise" THEN Raise
        ELSE Ok(IF names.v = <<>> THEN "No keywords available"
                ELSE Join(", ", names.v))

(* keywords_str of the list view: keywords[:3], no score filter *)
ListKeywords(work) ==
    LET keywords == DictGet(work, "keywords", List(<<>>))
    IN  IF keywords.t # "list" THEN Raise
        ELSE KeywordNames(Prefix(keywords.v, ListKeywordCap))

(* keywords_str of the detail view: every keyword *)
DetailKeywords(work) ==
    LET keywords == DictGet(work, "keywords", List(<<>>))
    IN  IF keywords.t = "obj"
           THEN (IF Truthy(keywords) THEN Raise ELSE Ok("No keywords available"))
        ELSE IF keywords.t # "list" THEN Raise
        ELSE KeywordNames(keywords.v)

(* the abstract line: reconstruct_abstract when the index is truthy, and
   "No abstract available" when the text is empty *)
Abstract(work) ==
    LET abstract_inverted == DictGet(work, "abstract_inverted_index", None)
    IN  IF ~ Truthy(abstract_inverted) THEN Ok(Str("No abstract available"))
        ELSE LET abstract == reconstruct_abstract(abstract_inverted)
             IN  IF abstract.t = "raise" THEN Raise
                 ELSE IF abstract.v = <<>> THEN Ok(Str("No abstract available"))
                 ELSE Ok(Text(abstract.v))

(* The lines of one work, in either view; a work that is no mapping has no
   get. *)
FormatWork(work, view) ==
    IF work.t # "obj" THEN Raise
    ELSE LET w == work.v
             authors == IF view = "list" THEN ListAuthors(w) ELSE DetailAuthors(w)
             venue == VenueInfo(w)
             id == extract_openalex_id(DictGet(w, "id", Text(<<>>)))
             concepts == IF view = "list" THEN ListConcepts(w) ELSE DetailConcepts(w)
             keywords == IF view = "list" THEN ListKeywords(w) ELSE DetailKeywords(w)
             abstract == Abstract(w)
         IN  IF \/ authors.t = "raise" \/ venue.t = "raise" \/ id.t = "raise"
                \/ concepts.t = "raise" \/ keywords.t = "raise"
                \/ abstract.t = "raise"
                THEN Raise
                ELSE Ok([title |-> Leaf(w, "title", "No title"),
                         authors |-> authors.v,
                         venue |-> venue.v,
                         published |-> Leaf(w, "publication_date", "Unknown date"),
                         citations |-> Leaf(w, "cited_by_count", "0"),
                         doi |-> Leaf(w, "doi", "No DOI"),
                         openalex_id |-> id.v,
                         concepts |-> concepts.v,
                         keywords |-> keywords.v,
                         abstract |-> abstract.v])

-----------------------------------------------------------------------------
(* Formatting one author record *)

AuthorConceptCap == 5

EmptyStats == Obj([h_index |-> Absent, i10_index |-> Absent])

(* author.get("summary_stats", {}).get(key, 0) *)
Stat(author, key) ==
    LET stats == DictGet(author, "summary_stats", EmptyStats)
    IN  IF stats.t # "obj" THEN Raise
        ELSE Ok(Format(DictGet(stats.v, key, Num(0))))

(* The institution lines: institutions[0] of a truthy value.  A list gives
   its first element; a non-empty mapping has no key 0 (KeyError), since its
   keys are strings. *)
Institution(author) ==
    LET institutions == DictGet(author, "last_known_institutions", List(<<>>))
    IN  IF ~ Truthy(institutions)
           THEN Ok([name |-> "Unknown institution", country |-> "Unknown country"])
        ELSE IF institutions.t # "list" THEN Raise
        ELSE LET institution == institutions.v[1]
             IN  IF institution.t # "obj" THEN Raise
                 ELSE Ok([name |-> Format(DictGet(institution.v, "display_name",
                                                  Str("Unknown institution"))),
                          country |-> Format(DictGet(institution.v, "country_code",
                                                     Str("Unknown country")))])

(* concept.get("display_name") of x_concepts *)
AreaName(concept) ==
    IF concept.t # "obj" THEN Raise
    ELSE Ok(DictGet(concept.v, "display_name", None))

(* research_areas_str: the truthy display names of concepts[:5], which must
   be str for ", ".join *)
ResearchAreas(author) ==
    LET concepts == DictGet(author, "x_concepts", List(<<>>))
    IN  IF concepts.t # "list" THEN Raise
        ELSE LET cs == Prefix(concepts.v, AuthorConceptCap)
                 got == AllOk([i \in 1..Len(cs) |-> AreaName(cs[i])])
             IN  IF got.t = "raise" THEN Raise
                 ELSE LET kept == Select(got.v, {i \in 1..Len(cs) : Truthy(got.v[i])})
                      IN  IF \E i \in 1..Len(kept) : kept[i].t # "str" THEN Raise
                          ELSE IF kept = <<>> THEN Ok("No research areas available")
                          ELSE Ok(Join(", ", [i \in 1..Len(kept) |-> kept[i].v]))

(* relevance_score > 0 needs a number; the line is written only above 0 *)
Relevance(author) ==
    LET relevance_score == DictGet(author, "relevance_score", Num(0))
    IN  IF relevance_score.t # "num" THEN Raise
        ELSE Ok([shown |-> relevance_score.v > 0, score |-> relevance_score.v])

(* the lines of one author of search_authors_openalex *)
FormatAuthor(author) ==
    IF author.t # "obj" THEN Raise
    ELSE LET a == author.v
             h_index == Stat(a, "h_index")
             i10_index == Stat(a, "i10_index")
             id == extract_openalex_id(DictGet(a, "id", Text(<<>>)))
             relevance == Relevance(a)
             institution == Institution(a)
             areas == ResearchAreas(a)
         IN  IF \/ h_index.t = "raise" \/ i10_index.t = "raise" \/ id.t = "raise"
                \/ relevance.t = "raise" \/ institution.t = "raise"
                \/ areas.t = "raise"
                THEN Raise
                ELSE Ok([name |-> Leaf(a, "display_name", "No name"),
                         institution |-> institution.v.name,
                         country |-> institution.v.country,
                         works |-> Leaf(a, "works_count", "0"),
                         citations |-> Leaf(a, "cited_by_count", "0"),
                         h_index |-> h_index.v,
                         i10_index |-> i10_index.v,
                         relevance |-> relevance.v,
                         research_areas |-> areas.v,
                         openalex_id |-> id.v])

-----------------------------------------------------------------------------
(* What each operation returns.  A service response r is either a transport *)
(* failure (session.get raised) or an HTTP answer with a status and a body; *)
(* readable says whether reading the body (response.json() on 200,          *)
(* response.text() otherwise) succeeds.                                     *)

NoValue == [kind |-> "none"]

ValidationError ==
    [kind |-> "validation",
     text |-> "Error: Either provide a search query or at least one filter (filter_type, filter_year, filter_author_id, or filter_csu_only)."]

NoResults(what) ==
    [kind |-> "no_results", text |-> "No " \o what \o " found matching your search criteria."]

NotFound ==
    [kind |-> "not_found", text |-> "Work not found. Please check the work ID or DOI."]

HttpError(prefix, r) ==
    [kind |-> "http_error", prefix |-> prefix, status |-> r.status, body |-> r.body]

(* an exception that no handler caught: the call raises *)
Raised == [kind |-> "raised"]

OnExceptionReraise == [kind |-> "raised"]

(* except Exception as e: return f"Error accessing OpenAlex API: {str(e)}" *)
OnException == [kind |-> "exception", prefix |-> "Error accessing OpenAlex API"]

(* the status branches of the two searches *)
SearchBranch(status) == IF status = 200 THEN "format" ELSE "http_error"

(* the status branches of get_work_details_openalex *)
DetailBranch(status) ==
    IF status = 200 THEN "format"
    ELSE IF status = 404 THEN "not_found"
    ELSE "http_error"

(* the for loop over the results: every record formatted, in order *)
FormatAll(records, view) ==
    AllOk([i \in 1..Len(records) |->
             IF view = "author" THEN FormatAuthor(records[i])
             ELSE FormatWork(records[i], view)])

(* The 200 branch of a search: data.get("results", []), the no-results
   return, then the loop.  Iterating a non-empty mapping gives its keys, which
   have no get. *)
SearchBody(data, limit, view, what) ==
    IF data.t # "obj" THEN OnException
    ELSE LET found == DictGet(data.v, "results", List(<<>>))
         IN  IF ~ Truthy(found) THEN NoResults(what)
             ELSE IF found.t # "list" THEN OnException
             ELSE LET items == FormatAll(found.v, view)
                  IN  IF items.t = "raise" THEN OnException
                      ELSE [kind |-> "formatted", found |-> Len(found.v),
                            limit |-> limit, items |-> items.v]

(* the try block of a search, from the response on *)
SearchOutcome(r, limit, view, what, prefix) ==
    IF r.kind = "transport_error" \/ ~ r.readable THEN OnException
    ELSE IF SearchBranch(r.status) = "format"
         THEN SearchBody(r.json, limit, view, what)
    ELSE HttpError(prefix, r)

WorksOutcome(a, r) ==
    SearchOutcome(r, ClampLimit(a.limit), "list", "works", "Error searching OpenAlex")

AuthorsOutcome(a, r) ==
    SearchOutcome(r, ClampLimit(a.limit), "author", "authors",
                  "Error searching OpenAlex")

(* the try block of get_work_details_openalex, from the response on *)
DetailOutcome(a, r) ==
    IF r.kind = "transport_error" \/ (DetailBranch(r.status) # "not_found" /\ ~ r.readable)
       THEN OnException
    ELSE IF DetailBranch(r.status) = "format"
         THEN LET item == FormatWork(r.json, "detail")
              IN  IF item.t = "raise" THEN OnException
                  ELSE [kind |-> "formatted", items |-> <<item.v>>]
    ELSE IF DetailBranch(r.status) = "not_found" THEN NotFound
    ELSE HttpError("Error retrieving work details", r)

-----------------------------------------------------------------------------
(* The requests of the other two operations *)

DoiPrefix == <<"1", "0", ".">>

(* url and params of get_work_details_openalex *)
DetailRequest(a) ==
    [url |-> IF StartsWith(a.work_id.v, DoiPrefix) THEN "/works/doi:" ELSE "/works/",
     id |-> a.work_id.v,
     params |-> [mailto |-> IF Truthy(a.email) THEN a.email ELSE Absent]]

(* url and params of search_authors_openalex *)
AuthorsRequest(a) ==
    [url |-> "/authors",
     params |-> [search |-> a.query,
                 per_page |-> Num(ClampLimit(a.limit)),
                 sort |-> a.sort_by,
                 mailto |-> IF Truthy(a.email) THEN a.email ELSE Absent,
                 filter |-> IF Truthy(a.filter_csu_only)
                               THEN Str("last_known_institutions.id:i92446798")
                               ELSE Absent]]

-----------------------------------------------------------------------------
(* The steps of an invocation i *)

IssueTwice(sent, request) == sent \o <<request, request>>

(* session.get(url, params=params): one request on the wire *)
Issue(sent, request) == Append(sent, request)

(* search_works_openalex up to the await: the limit clamp, the validation
   return, the parameters, the request *)
CallSearchWorks(i, a) ==
    /\ pc[i] = "idle"
    /\ op' = [op EXCEPT ![i] = "search_works"]
    /\ args' = [args EXCEPT ![i] = a]
    /\ IF WorksValidationFails(a)
          THEN /\ result' = [result EXCEPT ![i] = ValidationError]
               /\ pc' = [pc EXCEPT ![i] = "done"]
               /\ UNCHANGED requests
          ELSE /\ requests' = [requests EXCEPT ![i] = Issue(@, WorksRequest(a))]
               /\ pc' = [pc EXCEPT ![i] = "awaiting"]
               /\ UNCHANGED result
    /\ UNCHANGED response

(* search_works_openalex from the response to its return *)
ReturnSearchWorks(i, r) ==
    /\ pc[i] = "awaiting"
    /\ op[i] = "search_works"
    /\ response' = [response EXCEPT ![i] = r]
    /\ result' = [result EXCEPT ![i] = WorksOutcome(args[i], r)]
    /\ pc' = [pc EXCEPT ![i] = "done"]
    /\ UNCHANGED <<op, args, requests>>

(* get_work_details_openalex up to the await *)
CallGetWorkDetails(i, a) ==
    /\ pc[i] = "idle"
    /\ op' = [op EXCEPT ![i] = "get_work_details"]
    /\ args' = [args EXCEPT ![i] = a]
    /\ requests' = [requests EXCEPT ![i] = Issue(@, DetailRequest(a))]
    /\ pc' = [pc EXCEPT ![i] = "awaiting"]
    /\ UNCHANGED <<response, result>>

(* get_work_details_openalex from the response to its return *)
ReturnGetWorkDetails(i, r) ==
    /\ pc[i] = "awaiting"
    /\ op[i] = "get_work_details"
    /\ response' = [response EXCEPT ![i] = r]
    /\ result' = [result EXCEPT ![i] = DetailOutcome(args[i], r)]
    /\ pc' = [pc EXCEPT ![i] = "done"]
    /\ UNCHANGED <<op, args, requests>>

(* search_authors_openalex up to the await *)
CallSearchAuthors(i, a) ==
    /\ pc[i] = "idle"
    /\ op' = [op EXCEPT ![i] = "search_authors"]
    /\ args' = [args EXCEPT ![i] = a]
    /\ requests' = [requests EXCEPT ![i] = Issue(@, AuthorsRequest(a))]
    /\ pc' = [pc EXCEPT ![i] = "awaiting"]
    /\ UNCHANGED <<response, result>>

(* search_authors_openalex from the response to its return *)
ReturnSearchAuthors(i, r) ==
    /\ pc[i] = "awaiting"
    /\ op[i] = "search_authors"
    /\ response' = [response EXCEPT ![i] = r]
    /\ result' = [result EXCEPT ![i] = AuthorsOutcome(args[i], r)]
    /\ pc' = [pc EXCEPT ![i] = "done"]
    /\ UNCHANGED <<op, args, requests>>

(* a call of reconstruct_abstract on the index in args[i]; the function has
   no handler of its own, so what it raises reaches its caller *)
Reconstruct(i) ==
    /\ pc[i] = "idle"
    /\ op[i] = "reconstruct_abstract"
    /\ LET r == reconstruct_abstract(args[i].abstract_inverted_index)
       IN  result' = [result EXCEPT ![i] =
                        IF r.t = "raise" THEN Raised
                        ELSE [kind |-> "text", text |-> r.v]]
    /\ pc' = [pc EXCEPT ![i] = "done"]
    /\ UNCHANGED <<op, args, requests, response>>

-----------------------------------------------------------------------------
(* Inputs: the arguments of the calls *)

Chars(w) ==
    CASE w = "" -> <<>>
      [] w = " " -> <<" ">>
      [] w = "tab" -> <<"\t", " ">>
      [] w = "ml" -> <<"m", "l">>
      [] w = " ml " -> <<" ", "m", "l", " ">>
      [] w = "W1" -> <<"W", "1">>
      [] w = "10.1/x" -> <<"1", "0", ".", "1", "/", "x">>
      [] w = "https://o/W1" ->
            <<"h", "t", "t", "p", "s", ":", "/", "/", "o", "/", "W", "1">>

Email == "gavin@redspire.us"

LimitInputs == {-5, 0, 1, 2, 10, 199, 200, 201, 500}

WorksArgs ==
    [query : {None} \cup {Text(Chars(w)) : w \in {"", " ", "tab", "ml", " ml "}},
     limit : LimitInputs,
     sort_by : {Str(DefaultSort), Str("cited_by_count:desc"), Str("")},
     filter_type : {None, Str(""), Str("article")},
     filter_year : {None, Str("2020")},
     filter_author_id : {None, Str("A1")},
     filter_csu_only : {None, Bool(FALSE), Bool(TRUE)},
     email : {None, Str(Email)}]

DetailArgs ==
    [work_id : {Text(Chars(w)) : w \in {"", "W1", "10.1/x"}},
     email : {None, Str(""), Str(Email)}]

AuthorsArgs ==
    [query : {Str(""), Str("smith")},
     limit : LimitInputs,
     sort_by : {Str(DefaultSort), Str("works_count:desc")},
     filter_csu_only : {None, Bool(FALSE), Bool(TRUE)},
     email : {None, Str(Email)}]

(* the few arguments used where the responses are the subject *)
WorksArgsFew ==
    {a \in WorksArgs :
        /\ a.limit \in {0, 10}
        /\ a.query \in {Text(Chars("")), Text(Chars("ml"))}
        /\ a.sort_by = Str(DefaultSort)
        /\ a.filter_type = None /\ a.filter_year = None
        /\ a.filter_author_id = None /\ a.filter_csu_only = None
        /\ a.email = Str(Email)}

DetailArgsFew ==
    {a \in DetailArgs : a.work_id = Text(Chars("W1")) /\ a.email = Str(Email)}

AuthorsArgsFew ==
    {a \in AuthorsArgs :
        /\ a.limit = 10 /\ a.query = Str("smith") /\ a.sort_by = Str(DefaultSort)
        /\ a.filter_csu_only = None /\ a.email = Str(Email)}

-----------------------------------------------------------------------------
(* Inputs: the records the service may answer with *)

MaxAuthors == 4
MaxPosition == 3

Leaves(x) == {Absent, None, x}

Authorship(name) == Obj([author |-> Obj([display_name |-> name])])

AuthorNamed(k) == Authorship(Str("A" \o ToString(k)))

OddAuthorships ==
    {None, Obj([author |-> Absent]), Obj([author |-> None]),
     Authorship(Absent), Authorship(None)}

AuthorshipLists ==
    {[i \in 1..k |-> AuthorNamed(i)] : k \in 0..MaxAuthors}
    \cup UNION {{[[i \in 1..k |-> AuthorNamed(i)] EXCEPT ![j] = odd] :
                    j \in 1..k, odd \in OddAuthorships} : k \in 1..MaxAuthors}

AuthorshipShapes ==
    {Absent, None, Obj([x |-> Absent]), Obj([x |-> None])}
    \cup {List(l) : l \in AuthorshipLists}

Source(name, type) == Obj([display_name |-> name, type |-> type])

LocationShapes ==
    {Absent, None, List(<<>>), Obj([source |-> Absent]), Obj([source |-> None]),
     Obj([source |-> Str("s")])}
    \cup {Obj([source |-> Source(n, ty)]) :
            n \in Leaves(Str("V")), ty \in Leaves(Str("journal"))}

Concept(name, score) == Obj([display_name |-> name, score |-> score])

(* more concepts than any view is said to show, each above the threshold *)
MaxConcepts == 11

ManyConcepts ==
    [j \in 1..MaxConcepts |-> Concept(Str("C" \o ToString(j)), Num(5))]

ConceptLists ==
    {<<>>,
     ManyConcepts,
     <<Concept(Str("C1"), Num(9)), Concept(Str("C2"), Num(3)),
       Concept(Str("C3"), Num(4)), Concept(Str("C4"), Num(8))>>,
     <<Concept(Str("C1"), Absent), Concept(Absent, Num(5))>>,
     <<Concept(Str("C1"), None)>>,
     <<Concept(None, Num(5))>>,
     <<Concept(None, Num(1))>>,
     <<None>>}

ConceptShapes ==
    {Absent, None, Obj([x |-> Absent])} \cup {List(l) : l \in ConceptLists}

Keyword(name) == Obj([display_name |-> name])

KeywordShapes ==
    {Absent, None,
     List(<<>>),
     List(<<Keyword(Str("K1")), Keyword(Str("K2")), Keyword(Str("K3")),
            Keyword(Str("K4"))>>),
     List(<<Keyword(Absent)>>),
     List(<<Keyword(None)>>),
     List(<<Concept(Str("K5"), Num(1)), Concept(Str("K6"), Absent),
            Concept(Str("K7"), Num(9))>>)}

Item(word, positions) == [word |-> word, positions |-> positions]

AbstractShapes ==
    {Absent, None, Index(<<>>), Num(7),
     Index(<<Item(<<"a">>, <<0, 2>>), Item(<<"b">>, <<3>>)>>),
     Index(<<Item(<<"a">>, <<>>)>>),
     Index(<<Item(<<>>, <<1>>)>>),
     Index(<<Item(<<"a">>, <<-3, 0>>)>>)}

IdShapes == {Absent, None, Num(7), Text(Chars("W1")), Text(Chars("https://o/W1"))}

Work(title, authorships, location, date, cited, doi, id, concepts, keywords,
     abstract) ==
    Obj([title |-> title, authorships |-> authorships,
         primary_location |-> location, publication_date |-> date,
         cited_by_count |-> cited, doi |-> doi, id |-> id,
         concepts |-> concepts, keywords |-> keywords,
         abstract_inverted_index |-> abstract])

OneAuthor == List(<<AuthorNamed(1)>>)
Venue == Obj([source |-> Source(Str("V"), Str("journal"))])

BaseWork ==
    Work(Str("T"), OneAuthor, Venue, Str("2020-01-01"), Num(5), Str("10.1/x"),
         Text(Chars("https://o/W1")), List(<<>>), List(<<>>), Absent)

(* the leaves and the venue in every combination; then the authorships; then
   the remaining fields one at a time *)
WorkRecords ==
    {Work(t, OneAuthor, l, d, Num(5), doi, Text(Chars("W1")), List(<<>>),
          List(<<>>), Absent) :
        t \in Leaves(Str("T")), l \in LocationShapes,
        d \in Leaves(Str("2020-01-01")), doi \in Leaves(Str("10.1/x"))}
    \cup {Work(Str("T"), a, Venue, Str("2020-01-01"), Num(5), doi,
               Text(Chars("W1")), List(<<>>), List(<<>>), Absent) :
            a \in AuthorshipShapes, doi \in {None, Str("10.1/x")}}
    \cup {Work(Str("T"), OneAuthor, Venue, Str("2020-01-01"), c, Str("10.1/x"),
               id, List(<<>>), List(<<>>), Absent) :
            c \in Leaves(Num(5)), id \in IdShapes}
    \cup {Work(Str("T"), OneAuthor, Venue, Str("2020-01-01"), Num(5),
               Str("10.1/x"), Text(Chars("W1")), c, k, a) :
            c \in ConceptShapes, k \in KeywordShapes, a \in AbstractShapes}
    \cup {None, List(<<>>)}

Institution1(name, country) == Obj([display_name |-> name, country_code |-> country])

InstitutionObjects ==
    {Institution1(n, c) : n \in Leaves(Str("CSU")), c \in Leaves(Str("US"))}

InstitutionShapes ==
    {Absent, None, List(<<>>), List(<<None>>), Num(7)}
    \cup InstitutionObjects
    \cup {List(<<i>>) : i \in InstitutionObjects}
    \cup {List(<<i, Institution1(Str("MIT"), Str("US"))>>) : i \in InstitutionObjects}

StatsShapes ==
    {Absent, None, Obj([h_index |-> Absent, i10_index |-> Absent]),
     Obj([h_index |-> Num(12), i10_index |-> None])}

AreaShapes ==
    {Absent, None, List(<<>>),
     List(<<Keyword(Str("X1")), Keyword(Absent), Keyword(Str("")),
            Keyword(None), Keyword(Str("X2")), Keyword(Str("X3")),
            Keyword(Str("X4")), Keyword(Str("X5")), Keyword(Num(5))>>),
     List(<<Keyword(Num(5))>>), List(<<None>>)}

AuthorRec(name, works, cited, stats, id, relevance, institutions, areas) ==
    Obj([display_name |-> name, works_count |-> works, cited_by_count |-> cited,
         summary_stats |-> stats, id |-> id, relevance_score |-> relevance,
         last_known_institutions |-> institutions, x_concepts |-> areas])

AuthorRecords ==
    {AuthorRec(n, Num(3), Num(5), st, Text(Chars("https://o/W1")), Num(1500), i,
               List(<<>>)) :
        n \in Leaves(Str("Jo")), st \in StatsShapes, i \in InstitutionShapes}
    \cup {AuthorRec(Str("Jo"), w, Num(5), Absent, id, r, List(<<>>), x) :
            w \in Leaves(Num(3)), id \in {Absent, Text(Chars("W1"))},
            r \in {Absent, None, Num(0), Num(1500)}, x \in AreaShapes}
    \cup {None}

BaseAuthor ==
    AuthorRec(Str("Jo"), Num(3), Num(5), Absent, Text(Chars("W1")), Num(0),
              List(<<Institution1(Str("CSU"), Str("US"))>>), List(<<>>))

TransportError == [kind |-> "transport_error"]

Http(status, readable, json, body) ==
    [kind |-> "http", status |-> status, readable |-> readable, json |-> json,
     body |-> body]

(* the answers that are no readable 200 *)
FailedResponses ==
    {TransportError, Http(200, FALSE, None, "")}
    \cup {Http(st, rd, None, b) :
            st \in {404, 500}, rd \in BOOLEAN, b \in {"", "server error"}}

Results(v) == Obj([results |-> v])

(* the readable 200 answers of a search over the records rs, base being a
   well-formed record: no results in several shapes, one record, two *)
SearchResponses(rs, base) ==
    {Http(200, TRUE, j, "") :
        j \in {None, List(<<>>), Results(Absent), Results(None),
               Results(List(<<>>)), Results(Obj([x |-> None])), Results(Num(7))}}
    \cup {Http(200, TRUE, Results(List(<<r>>)), "") : r \in rs}
    \cup {Http(200, TRUE, Results(List(<<base, r>>)), "") : r \in rs}

DetailResponses(rs) == {Http(200, TRUE, r, "") : r \in rs}

-----------------------------------------------------------------------------
(* Inputs: the inverted indexes handed to reconstruct_abstract *)

Words == {<<"a">>, <<"b", "c">>, <<>>, <<" ">>, <<"d", " ", "e">>}

Positions == -1..MaxPosition

PositionLists ==
    {<<>>} \cup {<<p>> : p \in Positions} \cup {<<p, q>> : p, q \in Positions}

-----------------------------------------------------------------------------
(* Specifications *)

NumCalls == 2

(* no invocation of ids has begun *)
InitCalls(ids) ==
    /\ pc = [i \in ids |-> "idle"]
    /\ op = [i \in ids |-> "none"]
    /\ args = [i \in ids |-> NoValue]
    /\ requests = [i \in ids |-> <<>>]
    /\ response = [i \in ids |-> NoValue]
    /\ result = [i \in ids |-> NoValue]

BasicResponses(base) ==
    FailedResponses
    \cup {Http(200, TRUE, Results(List(<<>>)), ""),
          Http(200, TRUE, Results(List(<<base>>)), "")}

WorksResponsesBasic == BasicResponses(BaseWork)
DetailResponsesBasic == FailedResponses \cup DetailResponses({BaseWork})
AuthorsResponsesBasic == BasicResponses(BaseAuthor)

WorksResponsesAll == FailedResponses \cup SearchResponses(WorkRecords, BaseWork)
DetailResponsesAll == FailedResponses \cup DetailResponses(WorkRecords)
AuthorsResponsesAll == FailedResponses \cup SearchResponses(AuthorRecords, BaseAuthor)

Idle(i) == pc[i] = "idle"
Awaiting(i, operation) == pc[i] = "awaiting" /\ op[i] = operation

(* One invocation, every argument combination, a few responses: the request
   building. *)
Init == InitCalls({1})

Next ==
    \/ \E i \in DOMAIN pc : Idle(i) /\ \E a \in WorksArgs : CallSearchWorks(i, a)
    \/ \E i \in DOMAIN pc :
          Awaiting(i, "search_works")
          /\ \E r \in WorksResponsesBasic : ReturnSearchWorks(i, r)
    \/ \E i \in DOMAIN pc : Idle(i) /\ \E a \in DetailArgs : CallGetWorkDetails(i, a)
    \/ \E i \in DOMAIN pc :
          Awaiting(i, "get_work_details")
          /\ \E r \in DetailResponsesBasic : ReturnGetWorkDetails(i, r)
    \/ \E i \in DOMAIN pc : Idle(i) /\ \E a \in AuthorsArgs : CallSearchAuthors(i, a)
    \/ \E i \in DOMAIN pc :
          Awaiting(i, "search_authors")
          /\ \E r \in AuthorsResponsesBasic : ReturnSearchAuthors(i, r)

Spec == Init /\ [][Next]_vars

(* One invocation, a few arguments, every record shape: the formatting. *)
NextFormat ==
    \/ \E i \in DOMAIN pc : Idle(i) /\ \E a \in WorksArgsFew : CallSearchWorks(i, a)
    \/ \E i \in DOMAIN pc :
          Awaiting(i, "search_works")
          /\ \E r \in WorksResponsesAll : ReturnSearchWorks(i, r)
    \/ \E i \in DOMAIN pc :
          Idle(i) /\ \E a \in DetailArgsFew : CallGetWorkDetails(i, a)
    \/ \E i \in DOMAIN pc :
          Awaiting(i, "get_work_details")
          /\ \E r \in DetailResponsesAll : ReturnGetWorkDetails(i, r)
    \/ \E i \in DOMAIN pc :
          Idle(i) /\ \E a \in AuthorsArgsFew : CallSearchAuthors(i, a)
    \/ \E i \in DOMAIN pc :
          Awaiting(i, "search_authors")
          /\ \E r \in AuthorsResponsesAll : ReturnSearchAuthors(i, r)

SpecFormat == Init /\ [][NextFormat]_vars

(* reconstruct_abstract applied to an index of up to three words: None, the
   empty index, one or two words with any position lists, three words with
   one position each *)
OfIndex(x) == args = [i \in {1} |-> [abstract_inverted_index |-> x]]

InitAbstract ==
    /\ pc = [i \in {1} |-> "idle"]
    /\ op = [i \in {1} |-> "reconstruct_abstract"]
    /\ requests = [i \in {1} |-> <<>>]
    /\ response = [i \in {1} |-> NoValue]
    /\ result = [i \in {1} |-> NoValue]
    /\ \/ \E x \in {None, Index(<<>>)} : OfIndex(x)
       \/ \E w \in Words, ps \in PositionLists : OfIndex(Index(<<Item(w, ps)>>))
       \/ \E w1 \in Words, w2 \in Words, ps1 \in PositionLists, ps2 \in PositionLists :
             /\ w1 # w2
             /\ OfIndex(Index(<<Item(w1, ps1), Item(w2, ps2)>>))
       \/ \E w1 \in Words, w2 \in Words, w3 \in Words,
             p1 \in Positions, p2 \in Positions, p3 \in Positions :
             /\ w1 # w2 /\ w1 # w3 /\ w2 # w3
             /\ OfIndex(Index(<<Item(w1, <<p1>>), Item(w2, <<p2>>),
                                Item(w3, <<p3>>)>>))

NextAbstract == \E i \in DOMAIN pc : Reconstruct(i)

SpecAbstract == InitAbstract /\ [][NextAbstract]_vars

(* NumCalls invocations interleaved at their awaits *)
InitConcurrent == InitCalls(1..NumCalls)

NextConcurrent ==
    \/ \E i \in DOMAIN pc : Idle(i) /\ \E a \in WorksArgsFew : CallSearchWorks(i, a)
    \/ \E i \in DOMAIN pc :
          Awaiting(i, "search_works")
          /\ \E r \in WorksResponsesBasic : ReturnSearchWorks(i, r)
    \/ \E i \in DOMAIN pc :
          Idle(i) /\ \E a \in DetailArgsFew : CallGetWorkDetails(i, a)
    \/ \E i \in DOMAIN pc :
          Awaiting(i, "get_work_details")
          /\ \E r \in DetailResponsesBasic : ReturnGetWorkDetails(i, r)
    \/ \E i \in DOMAIN pc :
          Idle(i) /\ \E a \in AuthorsArgsFew : CallSearchAuthors(i, a)
    \/ \E i \in DOMAIN pc :
          Awaiting(i, "search_authors")
          /\ \E r \in AuthorsResponsesBasic : ReturnSearchAuthors(i, r)

SpecConcurrent == InitConcurrent /\ [][NextConcurrent]_vars

-----------------------------------------------------------------------------
(* The properties.  They speak of the arguments in their own terms, not    *)
(* through the operators that model the code.                              *)

Calls == DOMAIN pc

Started(i, operation) == op[i] = operation /\ pc[i] # "idle"
Returned(i, operation) == op[i] = operation /\ pc[i] = "done"
Sent(i) == requests[i] # <<>>

(* None, empty or whitespace only *)
BlankQuery(q) == q = None \/ \A k \in 1..Len(q.v) : q.v[k] \in Whitespace

(* a filter argument that is given: not None, not "", not False *)
Supplied(f) == f \notin {None, Str(""), Bool(FALSE)}

AllFiltersUnset(a) ==
    /\ ~ Supplied(a.filter_type) /\ ~ Supplied(a.filter_year)
    /\ ~ Supplied(a.filter_author_id) /\ ~ Supplied(a.filter_csu_only)

(* C1: a works search whose query is None, empty or whitespace only and
   whose four filters are all unset has returned the validation error string
   and has issued no request, whatever its limit, sort_by and email. *)
C1_BlankQueryNoFilterIsRefused ==
    \A i \in Calls :
        (Started(i, "search_works") /\ BlankQuery(args[i].query)
         /\ AllFiltersUnset(args[i]))
        => /\ pc[i] = "done"
           /\ result[i] = ValidationError
           /\ requests[i] = <<>>

(* a whitespace-only query with falsy but not-None filters is refused *)
C1_Witness ==
    \E i \in Calls :
        /\ Returned(i, "search_works")
        /\ args[i].query = Text(<<"\t", " ">>)
        /\ args[i].filter_type = Str("")
        /\ args[i].filter_csu_only = Bool(FALSE)
        /\ args[i].limit = 500
        /\ result[i] = ValidationError
        /\ requests[i] = <<>>

(* C3: the parameters of a works search that reached the network hold the
   key `search` only when the query is not blank, and then it equals the
   query; a filter-only search sends no `search` key. *)
C3_SearchKeyOnlyForNonBlankQuery ==
    \A i \in Calls :
        (Started(i, "search_works") /\ Sent(i))
        => LET search == requests[i][1].params.search
           IN  IF BlankQuery(args[i].query)
                  THEN search = Absent
                  ELSE search = args[i].query

(* C7: the per-page parameter of the two searches is the limit clamped into
   [1, 200]: 1 below 1, 200 above 200, the limit itself in between; and the
   limit never makes the call fail: only a blank, unfiltered works search is
   refused, and a well-formed answer is formatted showing the clamped limit. *)
C7_LimitIsClamped ==
    \A i \in Calls :
        (Started(i, "search_works") \/ Started(i, "search_authors"))
        => LET limit == args[i].limit
               clamped == IF limit < 1 THEN 1 ELSE IF limit > 200 THEN 200 ELSE limit
           IN  /\ Sent(i) =>
                    /\ requests[i][1].params.per_page = Num(clamped)
                    /\ requests[i][1].params.per_page.v \in 1..200
               /\ ~ Sent(i) =>
                    /\ op[i] = "search_works"
                    /\ BlankQuery(args[i].query) /\ AllFiltersUnset(args[i])
               /\ (pc[i] = "done" /\ Sent(i) /\ response[i].kind = "http"
                   /\ response[i].status = 200 /\ response[i].readable)
                  => \/ result[i].kind = "no_results"
                     \/ result[i].kind = "formatted" /\ result[i].limit = clamped

(* limits below and above the range, answered with a formatted result *)
C7_Witness ==
    \E i \in Calls :
        /\ Returned(i, "search_authors")
        /\ args[i].limit = 500
        /\ requests[i][1].params.per_page = Num(200)
        /\ result[i].kind = "formatted"

(* the clause a supplied filter contributes *)
Clause(field, value) == IF Supplied(value) THEN <<field \o ":" \o value.v>> ELSE <<>>

(* C8: the filter parameter of a works search is the clauses field:value of
   the supplied filters, in the order type, publication_year,
   authorships.author.id, authorships.institutions.id, joined by ","; the key
   is absent exactly when no filter is supplied. *)
C8_FilterClausesInOrder ==
    \A i \in Calls :
        (Started(i, "search_works") /\ Sent(i))
        => LET a == args[i]
               clauses ==
                   Clause("type", a.filter_type)
                   \o Clause("publication_year", a.filter_year)
                   \o Clause("authorships.author.id", a.filter_author_id)
                   \o (IF Supplied(a.filter_csu_only)
                          THEN <<"authorships.institutions.id:i92446798">> ELSE <<>>)
               filter == requests[i][1].params.filter
           IN  /\ (filter = Absent) <=> AllFiltersUnset(a)
               /\ filter # Absent => filter = Str(Join(",", clauses))
               /\ (a.filter_type = Str("article") /\ a.filter_year = Str("2020")
                   /\ ~ Supplied(a.filter_author_id) /\ ~ Supplied(a.filter_csu_only))
                  => filter = Str("type:article,publication_year:2020")

(* all four filters at once *)
C8_Witness ==
    \E i \in Calls :
        /\ Started(i, "search_works")
        /\ Sent(i)
        /\ requests[i][1].params.filter =
              Str("type:article,publication_year:2020,authorships.author.id:A1,authorships.institutions.id:i92446798")

-----------------------------------------------------------------------------
(* Properties of the returned text *)

(* the records of a readable 200 answer to invocation i, as one sequence *)
Answered(i) ==
    pc[i] = "done" /\ response[i].kind = "http" /\ response[i].status = 200
    /\ response[i].readable

ResultKinds ==
    {"formatted", "no_results", "validation", "http_error", "not_found", "exception"}

(* what a search was answered with, when that is a list of records *)
ListedRecords(i) ==
    IF /\ response[i].json.t = "obj"
       /\ response[i].json.v.results.t = "list"
    THEN response[i].json.v.results.v
    ELSE <<>>

(* C2: every invocation that has returned has returned one of the strings:
   a formatted result, the no-results message, the validation message or an
   error message; no exception leaves the operation, whatever the status, the
   transport and the shape of the records; and a formatted result is
   complete, holding every record of the answer. *)
C2_AlwaysReturnsAWholeString ==
    \A i \in Calls :
        pc[i] = "done"
        => /\ result[i].kind \in ResultKinds
           /\ result[i].kind = "formatted"
              => /\ Answered(i)
                 /\ IF op[i] = "get_work_details"
                       THEN Len(result[i].items) = 1
                       ELSE /\ Len(result[i].items) = Len(ListedRecords(i))
                            /\ result[i].found = Len(ListedRecords(i))

(* a record that cannot be formatted, after one that can: the error string,
   not the first record's lines *)
C2_Witness ==
    \E i \in Calls :
        /\ Returned(i, "search_works")
        /\ Answered(i)
        /\ Len(ListedRecords(i)) = 2
        /\ ListedRecords(i)[1] = BaseWork
        /\ ListedRecords(i)[2] = None
        /\ result[i] = OnException

(* the records whose own shape is as documented, a leaf apart *)
WellFormedBut(work) ==
    /\ work.t = "obj"
    /\ work.v.authorships = OneAuthor
    /\ work.v.concepts = List(<<>>) /\ work.v.keywords = List(<<>>)
    /\ work.v.abstract_inverted_index = Absent
    /\ work.v.id = Text(Chars("W1"))
    /\ work.v.primary_location.t \in {"absent", "null", "obj"}
    /\ work.v.primary_location.t = "obj"
       => work.v.primary_location.v.source.t \in {"absent", "null", "obj"}

Missing(v) == v = Absent \/ v = None

(* the venue's display name, through the intermediate objects *)
VenueName(work) ==
    IF work.v.primary_location.t # "obj" THEN Absent
    ELSE IF work.v.primary_location.v.source.t # "obj" THEN Absent
    ELSE work.v.primary_location.v.source.v.display_name

VenueType(work) ==
    IF work.v.primary_location.t # "obj" THEN Absent
    ELSE IF work.v.primary_location.v.source.t # "obj" THEN Absent
    ELSE work.v.primary_location.v.source.v.type

(* the placeholders of record work in its formatted lines *)
PlaceholdersShown(work, lines) ==
    /\ Missing(work.v.title) => lines.title = "No title"
    /\ Missing(work.v.publication_date) => lines.published = "Unknown date"
    /\ Missing(work.v.doi) => lines.doi = "No DOI"
    /\ (Missing(VenueName(work)) /\ Missing(VenueType(work)))
       => lines.venue = "Unknown venue"

(* C4: a work record of a 200 answer whose title, publication_date, doi or
   venue display_name is absent or null is formatted, in the list view and in
   the detail view, with that field's placeholder: "No title",
   "Unknown date", "No DOI", "Unknown venue". *)
C4_NullOrMissingLeafShowsPlaceholder ==
    \A i \in Calls :
        /\ (Returned(i, "get_work_details") /\ Answered(i)
            /\ WellFormedBut(response[i].json))
           => /\ result[i].kind = "formatted"
              /\ PlaceholdersShown(response[i].json, result[i].items[1])
        /\ (Returned(i, "search_works") /\ Answered(i)
            /\ Len(ListedRecords(i)) = 1 /\ WellFormedBut(ListedRecords(i)[1]))
           => /\ result[i].kind = "formatted"
              /\ PlaceholdersShown(ListedRecords(i)[1], result[i].items[1])

(* the same with the null leaves left out: the part of C4 the code keeps *)
C4_MissingLeafShowsPlaceholder ==
    \A i \in Calls :
        (Returned(i, "get_work_details") /\ Answered(i)
         /\ WellFormedBut(response[i].json))
        => LET work == response[i].json
               lines == result[i].items[1]
           IN  /\ result[i].kind = "formatted"
               /\ work.v.title = Absent => lines.title = "No title"
               /\ work.v.doi = Absent => lines.doi = "No DOI"
               /\ work.v.doi = None => lines.doi = "None"
               /\ VenueName(work) = Absent /\ Missing(VenueType(work))
                  => lines.venue = "Unknown venue"

(* the author records that differ from a plain one in the institutions only *)
PlainBut(author) ==
    /\ author.t = "obj"
    /\ author.v.display_name = Str("Jo")
    /\ author.v.summary_stats = Absent
    /\ author.v.relevance_score.t = "num"
    /\ author.v.x_concepts = List(<<>>)

InstitutionObject(x) ==
    x.t = "obj" /\ x.v.display_name.t = "str" /\ x.v.country_code.t = "str"

(* C5: an author whose last_known_institutions is a non-empty list is shown
   with the name and country of element 0, one whose field is a single object
   with that object's, one whose field is an empty list, null or absent with
   "Unknown institution" and "Unknown country"; each time the formatted
   summary is returned. *)
C5_EveryInstitutionShapeIsFormatted ==
    \A i \in Calls :
        (Returned(i, "search_authors") /\ Answered(i)
         /\ Len(ListedRecords(i)) = 1 /\ PlainBut(ListedRecords(i)[1]))
        => LET field == ListedRecords(i)[1].v.last_known_institutions
               lines == result[i].items[1]
               shows(x) == /\ lines.institution = x.v.display_name.v
                           /\ lines.country = x.v.country_code.v
           IN  /\ (field.t = "list" /\ Len(field.v) > 0 /\ InstitutionObject(field.v[1]))
                  => result[i].kind = "formatted" /\ shows(field.v[1])
               /\ InstitutionObject(field)
                  => result[i].kind = "formatted" /\ shows(field)
               /\ (Missing(field) \/ field = List(<<>>))
                  => /\ result[i].kind = "formatted"
                     /\ lines.institution = "Unknown institution"
                     /\ lines.country = "Unknown country"

(* C5 without the single object: the shapes the code does format *)
C5_ListShapesAreFormatted ==
    \A i \in Calls :
        (Returned(i, "search_authors") /\ Answered(i)
         /\ Len(ListedRecords(i)) = 1 /\ PlainBut(ListedRecords(i)[1]))
        => LET field == ListedRecords(i)[1].v.last_known_institutions
               lines == result[i].items[1]
           IN  /\ (field.t = "list" /\ Len(field.v) > 0 /\ InstitutionObject(field.v[1]))
                  => /\ result[i].kind = "formatted"
                     /\ lines.institution = field.v[1].v.display_name.v
                     /\ lines.country = field.v[1].v.country_code.v
               /\ InstitutionObject(field) => result[i] = OnException
               /\ (Missing(field) \/ field = List(<<>>))
                  => /\ result[i].kind = "formatted"
                     /\ lines.institution = "Unknown institution"
                     /\ lines.country = "Unknown country"

-----------------------------------------------------------------------------
(* Properties of reconstruct_abstract *)

(* the (word, position) pairs of an index: item k, j-th position *)
Pairs(items) ==
    UNION {{<<k, j>> : j \in 1..Len(items[k].positions)} : k \in 1..Len(items)}

PositionOf(items, pair) == items[pair[1]].positions[pair[2]]

(* position lists non-empty, positions non-negative and pairwise distinct *)
DistinctPositions(items) ==
    /\ \A k \in 1..Len(items) : items[k].positions # <<>>
    /\ \A x \in Pairs(items) : PositionOf(items, x) >= 0
    /\ \A x, y \in Pairs(items) :
          x # y => PositionOf(items, x) # PositionOf(items, y)

(* the words in ascending order of position *)
RECURSIVE InOrder(_, _)
InOrder(items, pairs) ==
    IF pairs = {} THEN <<>>
    ELSE LET first == CHOOSE x \in pairs :
                          \A y \in pairs : PositionOf(items, x) <= PositionOf(items, y)
         IN  <<items[first[1]].word>> \o InOrder(items, pairs \ {first})

RECURSIVE Spaced(_)
Spaced(ws) ==
    IF ws = <<>> THEN <<>>
    ELSE IF Len(ws) = 1 THEN ws[1]
    ELSE ws[1] \o <<" ">> \o Spaced(Tail(ws))

Tidy(text) ==
    /\ \A k \in 1..Len(text) - 1 : ~ (text[k] = " " /\ text[k + 1] = " ")
    /\ text # <<>> => text[1] \notin Whitespace /\ text[Len(text)] \notin Whitespace

ProperWord(w) == w # <<>> /\ \A k \in 1..Len(w) : w[k] \notin Whitespace

(* what C6 says of the index x and the returned value r *)
InPositionOrder(x, r) ==
    /\ r.kind = "text"
    /\ r.text = Spaced(InOrder(x.v, Pairs(x.v)))
    /\ Tidy(r.text)

(* C6 as first stated: for every index with non-empty position lists and
   non-negative, pairwise distinct positions, reconstruct_abstract returns the
   words in ascending order of position joined by single spaces, one token for
   each (word, position) pair, with no run of spaces and no leading or
   trailing whitespace. *)
C6_AnyWordsInPositionOrder ==
    \A i \in Calls :
        LET x == args[i].abstract_inverted_index
        IN  (Returned(i, "reconstruct_abstract") /\ x.t = "index"
             /\ DistinctPositions(x.v))
            => InPositionOrder(x, result[i])

(* C6: for every index with non-empty position lists, non-negative, pairwise
   distinct positions and words that are non-empty and free of whitespace,
   reconstruct_abstract returns the words in ascending order of position
   joined by single spaces, one token for each (word, position) pair: no pair
   is dropped, a gap adds nothing, and the text has no run of spaces and no
   leading or trailing whitespace. *)
C6_WordsInPositionOrder ==
    \A i \in Calls :
        LET x == args[i].abstract_inverted_index
        IN  (Returned(i, "reconstruct_abstract") /\ x.t = "index"
             /\ DistinctPositions(x.v)
             /\ \A k \in 1..Len(x.v) : ProperWord(x.v[k].word))
            => InPositionOrder(x, result[i])

(* two words out of order with gaps before and between them *)
C6_Witness ==
    \E i \in Calls :
        /\ Returned(i, "reconstruct_abstract")
        /\ args[i].abstract_inverted_index =
              Index(<<Item(<<"a">>, <<3>>), Item(<<"b", "c">>, <<1>>)>>)
        /\ result[i].text = <<"b", "c", " ", "a">>

-----------------------------------------------------------------------------
(* Properties of the author lists *)

(* the name an authorship is shown under *)
ShownName(authorship) ==
    IF authorship.v.author = Absent THEN "Unknown"
    ELSE IF authorship.v.author.v.display_name = Absent THEN "Unknown"
    ELSE authorship.v.author.v.display_name.v

(* the authorships of a formatted work: none when the key is missing *)
Authorships(work) ==
    IF work.v.authorships.t = "list" THEN work.v.authorships.v ELSE <<>>

(* what the list view shows for k authorships *)
ListViewAuthors(authorships) ==
    LET k == Len(authorships)
        shown == IF k < 3 THEN k ELSE 3
    IN  Join(", ", [j \in 1..shown |-> ShownName(authorships[j])])
        \o (IF k > 3 THEN " and " \o ToString(k - 3) \o " others" ELSE "")

(* what the detail view shows: every name, nothing left to count *)
DetailViewAuthors(authorships) ==
    Join(", ", [j \in 1..Len(authorships) |-> ShownName(authorships[j])])

(* C9: in a formatted result the author line accounts for every author of
   the work.  The list view shows the first min(k, 3) names in record order
   joined by ", " and, exactly when k > 3, the suffix "and N others" with
   N = k - 3.  The detail view has no cap below k: it shows all k names and
   never a suffix.  In both, names shown + N = k. *)
C9_AuthorLineAccountsForEveryAuthor ==
    \A i \in Calls :
        /\ (Returned(i, "search_works") /\ result[i].kind = "formatted")
           => \A n \in 1..Len(ListedRecords(i)) :
                 result[i].items[n].authors
                    = ListViewAuthors(Authorships(ListedRecords(i)[n]))
        /\ (Returned(i, "get_work_details") /\ result[i].kind = "formatted")
           => result[i].items[1].authors
                 = DetailViewAuthors(Authorships(response[i].json))

(* four authors in the list view: three names and one other *)
C9_Witness ==
    \E i \in Calls :
        /\ Returned(i, "search_works")
        /\ result[i].kind = "formatted"
        /\ Len(result[i].items) = 1
        /\ Len(Authorships(ListedRecords(i)[1])) = 4
        /\ result[i].items[1].authors = "A1, A2, A3 and 1 others"

-----------------------------------------------------------------------------
(* Properties of the requests *)

NonSuccess(i) ==
    pc[i] = "done" /\ response[i].kind = "http" /\ response[i].status # 200

EmbedsStatusAndBody(i) ==
    /\ result[i].kind = "http_error"
    /\ result[i].status = response[i].status
    /\ result[i].body = response[i].body

(* an invocation issues one request when its arguments pass validation and
   none when they do not, and never a second one *)
OneRequestAtMost(i) ==
    /\ Len(requests[i]) <= 1
    /\ pc[i] # "idle" =>
          (requests[i] = <<>>) <=>
             (op[i] = "search_works" /\ BlankQuery(args[i].query)
              /\ AllFiltersUnset(args[i]))

(* the result is a function of the invocation's own arguments and answer *)
OwnInputsOnly(i) ==
    \A j \in Calls :
        (pc[i] = "done" /\ pc[j] = "done" /\ op[i] = op[j] /\ args[i] = args[j]
         /\ response[i] = response[j])
        => result[i] = result[j]

(* a step belongs to one invocation, issues a request only as that
   invocation's call begins, and changes nothing of a returned invocation *)
StepOfOne ==
    \E i \in Calls :
        /\ \A j \in Calls \ {i} :
              /\ pc'[j] = pc[j] /\ op'[j] = op[j] /\ args'[j] = args[j]
              /\ requests'[j] = requests[j] /\ response'[j] = response[j]
              /\ result'[j] = result[j]
        /\ pc[i] # "done"
        /\ requests'[i] # requests[i] => pc[i] = "idle"

(* C10 as first stated: at most one request per invocation, and after every
   non-200 status the operation returns a string embedding the status code
   and the service's error body. *)
C10_EveryNon200EmbedsStatusAndBody ==
    \A i \in Calls :
        /\ OneRequestAtMost(i)
        /\ (NonSuccess(i) /\ response[i].readable) => EmbedsStatusAndBody(i)

(* C10: each invocation issues at most one request (one when validation
   passes, none when it fails) and never repeats it.  After a non-200 status
   it returns at once, without a retry: the fixed "Work not found" message
   for a 404 of get_work_details_openalex, otherwise the string embedding the
   status code and the error body, or the generic error string when reading
   that body fails.  Invocations share no state: a step touches one
   invocation, and equal arguments and answers give equal results. *)
C10_SingleFlightNoRetry ==
    /\ [](\A i \in Calls :
            /\ OneRequestAtMost(i)
            /\ OwnInputsOnly(i)
            /\ NonSuccess(i) =>
                  IF op[i] = "get_work_details" /\ response[i].status = 404
                     THEN result[i] = NotFound
                  ELSE IF response[i].readable THEN EmbedsStatusAndBody(i)
                  ELSE result[i] = OnException)
    /\ [][StepOfOne]_vars

(* a 404 answered to get_work_details_openalex while another invocation is
   waiting for its own answer *)
C10_Witness ==
    \E i, j \in Calls :
        /\ Returned(i, "get_work_details")
        /\ response[i].kind = "http" /\ response[i].status = 404
        /\ result[i] = NotFound
        /\ Len(requests[i]) = 1
        /\ op[j] = "search_works" /\ pc[j] = "awaiting"

-----------------------------------------------------------------------------
(* Properties of the concept and keyword lines *)

(* the concepts and the keywords of a formatted work: none when the key is
   missing or the value is an empty mapping *)
ConceptsOf(work) ==
    IF work.v.concepts.t = "list" THEN work.v.concepts.v ELSE <<>>

KeywordsOf(work) ==
    IF work.v.keywords.t = "list" THEN work.v.keywords.v ELSE <<>>

(* the positions of the concepts whose score is a number above 0.3 *)
HighScored(concepts) ==
    {j \in 1..Len(concepts) :
        /\ concepts[j].t = "obj"
        /\ concepts[j].v.score.t = "num"
        /\ concepts[j].v.score.v > 3}

(* the name an entry is shown under *)
NameOf(entry) ==
    IF entry.v.display_name.t = "str" THEN entry.v.display_name.v ELSE ""

(* the line that shows exactly these entries, in record order *)
NamesLine(entries, none) ==
    IF entries = <<>> THEN none
    ELSE Join(", ", [j \in 1..Len(entries) |-> NameOf(entries[j])])

(* the line shows some concepts of the work, each scored above 0.3 and no
   more than cap of them *)
ShowsHighScoredAtMost(line, concepts, cap) ==
    \E keep \in SUBSET HighScored(concepts) :
        /\ Cardinality(keep) <= cap
        /\ line = NamesLine(Select(concepts, keep), "No concepts available")

(* the line shows the first n keywords for some n <= cap, whatever their
   scores *)
ShowsFirstKeywordsAtMost(line, keywords, cap) ==
    \E n \in 0..Min(cap, Len(keywords)) :
        line = NamesLine(Prefix(keywords, n), "No keywords available")

(* C11 as stated: in every formatted work summary each concept shown has a
   score strictly above 0.3, at most 3 concepts are shown in the list view
   and at most 10 in the detail view; keywords are not filtered by score,
   only capped in number. *)
C11_ConceptsCappedAt3And10 ==
    \A i \in Calls :
        /\ (Returned(i, "search_works") /\ result[i].kind = "formatted")
           => \A n \in 1..Len(ListedRecords(i)) :
                 /\ ShowsHighScoredAtMost(result[i].items[n].concepts,
                                          ConceptsOf(ListedRecords(i)[n]), 3)
                 /\ ShowsFirstKeywordsAtMost(result[i].items[n].keywords,
                                             KeywordsOf(ListedRecords(i)[n]), 3)
        /\ (Returned(i, "get_work_details") /\ result[i].kind = "formatted")
           => /\ ShowsHighScoredAtMost(result[i].items[1].concepts,
                                       ConceptsOf(response[i].json), 10)
              /\ ShowsFirstKeywordsAtMost(result[i].items[1].keywords,
                                          KeywordsOf(response[i].json),
                                          Len(KeywordsOf(response[i].json)))

(* C11, amended: in every formatted work summary each concept shown has a
   score strictly above 0.3 (a concept scored exactly 0.3, or without a
   score, is never shown).  The list view shows at most 3 concepts, taken
   among the first 3 of the record, and the first min(k, 3) of the k
   keywords.  The detail view has no cap: it shows every concept scored
   above 0.3 and every keyword.  Keywords are shown whatever their score. *)
C11_ConceptsAboveThresholdListCapped ==
    \A i \in Calls :
        /\ (Returned(i, "search_works") /\ result[i].kind = "formatted")
           => \A n \in 1..Len(ListedRecords(i)) :
                 LET concepts == ConceptsOf(ListedRecords(i)[n])
                     keywords == KeywordsOf(ListedRecords(i)[n])
                 IN  /\ ShowsHighScoredAtMost(result[i].items[n].concepts,
                                              Prefix(concepts, 3), 3)
                     /\ result[i].items[n].keywords
                           = NamesLine(Prefix(keywords, 3),
                                       "No keywords available")
        /\ (Returned(i, "get_work_details") /\ result[i].kind = "formatted")
           => LET concepts == ConceptsOf(response[i].json)
                  keywords == KeywordsOf(response[i].json)
              IN  /\ result[i].items[1].concepts
                        = NamesLine(Select(concepts, HighScored(concepts)),
                                    "No concepts available")
                  /\ result[i].items[1].keywords
                        = NamesLine(keywords, "No keywords available")

(* the list view of four concepts scored 0.9, 0.3, 0.4 and 0.8, with
   keywords scored 0.1, unscored and 0.9: the second concept is at the
   threshold and the fourth beyond the cap; every keyword is shown *)
C11_Witness ==
    \E i \in Calls :
        /\ Returned(i, "search_works")
        /\ result[i].kind = "formatted"
        /\ Len(result[i].items) = 1
        /\ Len(ConceptsOf(ListedRecords(i)[1])) = 4
        /\ ConceptsOf(ListedRecords(i)[1])[2].v.score = Num(3)
        /\ result[i].items[1].concepts = "C1, C3"
        /\ result[i].items[1].keywords = "K5, K6, K7"

====
